---------------------------- MODULE Spec2Model ----------------------------
(***************************************************************************)
(* Carbon Wise (src/app.py): the emissions calculator, the month-keyed     *)
(* history kept in browser local storage, and the Streamlit script that    *)
(* drives them.                                                            *)
(*                                                                         *)
(* Python floats are IEEE-754 binary64.  They are modelled bit-exactly: a  *)
(* float is a 53-bit significand m and an exponent e (value m * 2^e), the  *)
(* significand held as a little-endian sequence of 15-bit limbs because    *)
(* the model checker's integers are 32 bits wide.  Every value of the      *)
(* program is non-negative and far from the subnormal and overflow ranges, *)
(* so sign, subnormals and infinities are not represented.                 *)
(***************************************************************************)
EXTENDS Integers, Sequences, FiniteSets, TLC

(***************************************************************************)
(* Natural numbers of any size: little-endian limbs, no leading zero limb. *)
(***************************************************************************)
LimbBits == 15
Base == 2^LimbBits

Limb(a, i) == IF i <= Len(a) THEN a[i] ELSE 0

RECURSIVE BNorm(_)
BNorm(a) ==
    IF a = <<>> THEN <<>>
    ELSE IF a[Len(a)] = 0 THEN BNorm(SubSeq(a, 1, Len(a) - 1))
    ELSE a

RECURSIVE ToBig(_)
ToBig(n) == IF n = 0 THEN <<>> ELSE <<n % Base>> \o ToBig(n \div Base)

RECURSIVE ToInt(_)
ToInt(a) == IF a = <<>> THEN 0 ELSE a[1] + Base * ToInt(Tail(a))

RECURSIVE BAddRec(_, _, _, _)
BAddRec(a, b, i, carry) ==
    IF i > Len(a) /\ i > Len(b)
    THEN (IF carry = 0 THEN <<>> ELSE <<carry>>)
    ELSE LET s == Limb(a, i) + Limb(b, i) + carry
         IN  <<s % Base>> \o BAddRec(a, b, i + 1, s \div Base)

BAdd(a, b) == BAddRec(a, b, 1, 0)

RECURSIVE BMulSmallRec(_, _, _, _)
BMulSmallRec(a, n, i, carry) ==
    IF i > Len(a)
    THEN ToBig(carry)
    ELSE LET s == a[i] * n + carry
         IN  <<s % Base>> \o BMulSmallRec(a, n, i + 1, s \div Base)

\* a * n for 0 <= n <= Base
BMulSmall(a, n) == BNorm(BMulSmallRec(a, n, 1, 0))

Zeros(k) == [i \in 1..k |-> 0]

RECURSIVE BMulRec(_, _, _)
BMulRec(a, b, i) ==
    IF i > Len(b) THEN <<>>
    ELSE BAdd(BNorm(Zeros(i - 1) \o BMulSmall(a, b[i])), BMulRec(a, b, i + 1))

BMul(a, b) == BMulRec(a, b, 1)

\* a * 2^k
BShl(a, k) ==
    IF a = <<>> THEN <<>>
    ELSE Zeros(k \div LimbBits) \o BMulSmall(a, 2^(k % LimbBits))

\* quotient and remainder of a by n, 1 <= n <= Base
BDivRem(a, n) ==
    LET L == Len(a)
        R[i \in 0..L] ==
            IF i = 0 THEN 0 ELSE (R[i - 1] * Base + a[L - i + 1]) % n
    IN  [q |-> BNorm([j \in 1..L |-> (R[L - j] * Base + a[j]) \div n]),
         r |-> R[L]]

\* floor(a / 2^k)
BShr(a, k) ==
    LET d == k \div LimbBits
    IN  IF d >= Len(a) THEN <<>>
        ELSE BDivRem(SubSeq(a, d + 1, Len(a)), 2^(k % LimbBits)).q

BOdd(a) == a # <<>> /\ a[1] % 2 = 1

SmallBitLen(x) == CHOOSE k \in 0..LimbBits : x < 2^k /\ (k = 0 \/ x >= 2^(k - 1))

BitLen(a) ==
    IF a = <<>> THEN 0
    ELSE LimbBits * (Len(a) - 1) + SmallBitLen(a[Len(a)])

(***************************************************************************)
(* binary64 arithmetic, round to nearest, ties to even.                    *)
(***************************************************************************)
MantBits == 53

FZero == [m |-> <<>>, e |-> 0]

RoundedUp(q, roundBit, sticky) ==
    IF roundBit /\ (sticky \/ BOdd(q)) THEN BAdd(q, <<1>>) ELSE q

\* q2 is floor(M / 2^(s-1)): its last bit is the rounding bit, and the bits
\* of M below it are the sticky bits
RoundedFrom(M, s, q2) == RoundedUp(BShr(q2, 1), BOdd(q2), BShl(q2, s - 1) # M)

\* the natural number nearest to M / 2^s, ties to even, s >= 1
RoundShr(M, s) == RoundedFrom(M, s, BShr(M, s - 1))

\* m1 * 2^E with m1 of MantBits or MantBits + 1 bits (a carry out of the
\* rounding); in the second case m1 is a power of two
Renormalized(m1, E) ==
    IF BitLen(m1) > MantBits
    THEN [m |-> BShr(m1, 1), e |-> E + 1]
    ELSE [m |-> m1, e |-> E]

\* M * 2^E, M of L bits
RoundBits(M, E, L) ==
    IF L = 0 THEN FZero
    ELSE IF L <= MantBits
    THEN [m |-> BShl(M, MantBits - L), e |-> E - (MantBits - L)]
    ELSE Renormalized(RoundShr(M, L - MantBits), E + (L - MantBits))

\* the float nearest to M * 2^E
RoundToFloat(M, E) == RoundBits(M, E, BitLen(M))

Min2(x, y) == IF x <= y THEN x ELSE y

AddAligned(a, b, e) ==
    RoundToFloat(BAdd(BShl(a.m, a.e - e), BShl(b.m, b.e - e)), e)

\* Python's a + b on floats
FAdd(a, b) ==
    IF a.m = <<>> THEN b
    ELSE IF b.m = <<>> THEN a
    ELSE AddAligned(a, b, Min2(a.e, b.e))

\* Python's a * b on floats
FMul(a, b) ==
    IF a.m = <<>> \/ b.m = <<>> THEN FZero
    ELSE RoundToFloat(BMul(a.m, b.m), a.e + b.e)

GuardBits == 70

\* d is n * 2^GuardBits divided by 100: a remainder is one more sticky bit
FromQuotient(d) ==
    RoundToFloat(BAdd(BShl(d.q, 1), IF d.r > 0 THEN <<1>> ELSE <<>>),
                 0 - GuardBits - 1)

\* the float a decimal literal with two places denotes: the one nearest to n/100
FromCenti(n) ==
    IF n = 0 THEN FZero
    ELSE FromQuotient(BDivRem(BShl(ToBig(n), GuardBits), 100))

\* the integer nearest to x * 100, ties to even, x > 0 with x.e < 0
NearestCenti(x) == ToInt(RoundShr(BMulSmall(x.m, 100), 0 - x.e))

\* Python's round(x, 2): correctly rounded to two decimal places, then the
\* float nearest to that decimal
Round2(x) == IF x.m = <<>> THEN FZero ELSE FromCenti(NearestCenti(x))

\* a < b, a = b or a > b on naturals: -1, 0, 1
RECURSIVE BCmpRec(_, _, _)
BCmpRec(a, b, i) ==
    IF i = 0 THEN 0
    ELSE IF a[i] < b[i] THEN -1
    ELSE IF a[i] > b[i] THEN 1
    ELSE BCmpRec(a, b, i - 1)

BCmp(a, b) ==
    IF Len(a) < Len(b) THEN -1
    ELSE IF Len(a) > Len(b) THEN 1
    ELSE BCmpRec(a, b, Len(a))

RECURSIVE BSubRec(_, _, _, _)
BSubRec(a, b, i, borrow) ==
    IF i > Len(a) THEN <<>>
    ELSE LET d == a[i] - Limb(b, i) - borrow
         IN  IF d < 0 THEN <<d + Base>> \o BSubRec(a, b, i + 1, 1)
             ELSE <<d>> \o BSubRec(a, b, i + 1, 0)

\* a - b for a >= b
BSub(a, b) == BNorm(BSubRec(a, b, 1, 0))

CloseBig(hi, lo) ==
    BCmp(BMulSmall(BMulSmall(BMulSmall(BSub(hi, lo), 1000), 1000), 1000), hi) <= 0

CloseAligned(A, B) == IF BCmp(A, B) >= 0 THEN CloseBig(A, B) ELSE CloseBig(B, A)

CloseAt(a, b, e) ==
    CloseAligned(IF a.m = <<>> THEN <<>> ELSE BShl(a.m, a.e - e),
                 IF b.m = <<>> THEN <<>> ELSE BShl(b.m, b.e - e))

\* math.isclose(a, b) with its default rel_tol = 1e-09 and abs_tol = 0:
\* |a - b| <= 1e-09 * max(a, b), decided exactly on the two significands
\* brought to a common exponent
FClose(a, b) == CloseAt(a, b, Min2(a.e, b.e))

(***************************************************************************)
(* Configuration and data (src/app.py:167-175).                            *)
(***************************************************************************)
EMISSION_FACTORS ==
    ("Plastic" :> FromCenti(600)) @@ ("Paper" :> FromCenti(120)) @@
    ("Food Waste" :> FromCenti(190)) @@ ("Glass" :> FromCenti(85)) @@
    ("Cardboard" :> FromCenti(100)) @@ ("Textiles" :> FromCenti(500)) @@
    ("Metal" :> FromCenti(250))

\* A Python dict whose iteration order matters (by_category) is the sequence
\* of its [k, v] pairs in insertion order.
DictKeys(d) == {d[i].k : i \in 1..Len(d)}

DictHas(d, k) == \E i \in 1..Len(d) : d[i].k = k

\* d.get(k, default)
DictGet(d, k, default) ==
    IF DictHas(d, k) THEN d[CHOOSE i \in 1..Len(d) : d[i].k = k].v ELSE default

\* d[k] = v
DictSet(d, k, v) ==
    IF DictHas(d, k)
    THEN [i \in 1..Len(d) |-> IF d[i].k = k THEN [k |-> k, v |-> v] ELSE d[i]]
    ELSE Append(d, [k |-> k, v |-> v])

(***************************************************************************)
(* State.                                                                  *)
(*                                                                         *)
(* st.session_state holds Python objects between script runs, so a list    *)
(* put in two places is one object.  heap maps the address of a session    *)
(* list to its contents; a list object is [addr |-> a] (a session list) or *)
(* [val |-> s] (a list that came out of storage, owned by nobody else).    *)
(* A waste item is [category, quantity, id], quantity a float.             *)
(***************************************************************************)
VARIABLES
    heap,                \* contents of the session's list objects
    waste_items,         \* st.session_state.waste_items: an address
    calculation_result,  \* st.session_state.calculation_result: <<>> is {}
    show_result,         \* st.session_state.show_result
    stored,              \* local storage under HIST_KEY
    now,                 \* the wall clock, in months
    pc,                  \* where the script run is
    clicked,             \* the widget event this run serves
    history,             \* the script's variable history (last get_history())
    error,               \* an exception escaped the script run
    toast,               \* the last st.toast of this run
    io,                  \* which storage calls of the last step raised
    esp32_connected,     \* st.session_state.esp32_connected
    esp32_connecting,    \* st.session_state.esp32_connecting
    current_co2,         \* st.session_state.current_co2
    co2_readings,        \* st.session_state.co2_readings, by their 'co2'
    last_update,         \* st.session_state.last_update: <<t>>, <<>> if not set
    clock                \* time.time(), in seconds

deviceVars == <<esp32_connected, esp32_connecting, current_co2, co2_readings,
                last_update, clock>>

vars == <<heap, waste_items, calculation_result, show_result, stored, now, pc,
          clicked, history, error, toast, io, deviceVars>>

\* lines 479-486; last_update is not a key of the session yet
DeviceInit ==
    /\ esp32_connected = FALSE
    /\ esp32_connecting = FALSE
    /\ co2_readings = <<>>
    /\ current_co2 = 420
    /\ last_update = <<>>
    /\ clock = 0

Addr == {1, 2}

Deref(items) == IF "addr" \in DOMAIN items THEN heap[items.addr] ELSE items.val

KeyError == [exception |-> "KeyError"]

(***************************************************************************)
(* calculate_emissions (src/app.py:221-236).                               *)
(***************************************************************************)
RECURSIVE CalcLoop(_, _, _, _)

\* Mutant of CalcStep: the emission is rounded to two places before it is
\* added (round(emission, 2) in the loop).
CalcStepRounded(s, i, by, total, emission) ==
    CalcLoop(s, i + 1,
             DictSet(by, s[i].category,
                     FAdd(DictGet(by, s[i].category, FZero), Round2(emission))),
             FAdd(total, Round2(emission)))

\* Mutant of CalcStep: the subtotal is overwritten instead of accumulated
\* (emissions_by_cat[cat] = emission).
CalcStepOverwrite(s, i, by, total, emission) ==
    CalcLoop(s, i + 1, DictSet(by, s[i].category, emission),
             FAdd(total, emission))

\* lines 229-230 for the i-th item, whose emission is given, and the rest of
\* the loop
CalcStep(s, i, by, total, emission) ==
    CalcLoop(s, i + 1,
             DictSet(by, s[i].category,
                     FAdd(DictGet(by, s[i].category, FZero), emission)),
             FAdd(total, emission))

\* the for loop from its i-th item on: s the list, by and total the
\* accumulators
CalcLoop(s, i, by, total) ==
    IF i > Len(s) THEN [by |-> by, total |-> total]
    ELSE CalcStep(s, i, by, total,
                  FMul(s[i].quantity, EMISSION_FACTORS[s[i].category]))

\* lines 232-236: the dict returned, r the accumulators after the loop
CalcResult(items, r) ==
    [total |-> Round2(r.total), by_category |-> r.by, items |-> items]

\* Mutant of CalcOn: an early "if not items: return {}".
CalcOnEarlyReturn(items, s) ==
    IF s = <<>> THEN <<>>
    ELSE IF \E i \in 1..Len(s) : s[i].category \notin DOMAIN EMISSION_FACTORS
    THEN KeyError
    ELSE CalcResult(items, CalcLoop(s, 1, <<>>, FZero))

\* Mutant of CalcOn: the factor is looked up with a default of 0
\* (EMISSION_FACTORS.get(cat, 0)), so an unknown category adds nothing and
\* nothing is raised.
CalcOnDefaultFactor(items, s) ==
    CalcResult(items,
               CalcLoop(SelectSeq(s, LAMBDA e : e.category \in DOMAIN EMISSION_FACTORS),
                        1, <<>>, FZero))

\* the call on the list object items, whose contents are s: the result
\* dict, or KeyError when a category is not in EMISSION_FACTORS
CalcOn(items, s) ==
    IF \E i \in 1..Len(s) : s[i].category \notin DOMAIN EMISSION_FACTORS
    THEN KeyError
    ELSE CalcResult(items, CalcLoop(s, 1, <<>>, FZero))

\* what the call returns.  "items" is the argument itself, not a copy.
calculate_emissions(items) == CalcOn(items, Deref(items))

\* Mutant of calculate_emissions_heap: the loop consumes its argument
\* (while items: item = items.pop(0)).
calculate_emissions_heap_consuming(items) ==
    IF "addr" \in DOMAIN items THEN [heap EXCEPT ![items.addr] = <<>>] ELSE heap

\* what the call leaves in the heap: it only reads its argument
calculate_emissions_heap(items) == heap

(***************************************************************************)
(* The calculator on its own: the inputs are drawn in CalcInit and         *)
(* CalcCall applies the function to them.                                  *)
(***************************************************************************)
MaxCalcItems == 3

Entry(c, centi) == [category |-> c, quantity |-> FromCenti(centi)]

CalcEntries ==
    {Entry("Plastic", 200), Entry("Paper", 500), Entry("Glass", 25),
     Entry("Plastic", 25), Entry("Batteries", 100)}

RECURSIVE SeqsUpTo(_, _)
SeqsUpTo(S, n) ==
    IF n = 0 THEN {<<>>}
    ELSE LET shorter == SeqsUpTo(S, n - 1)
         IN  shorter \cup {Append(q, x) : q \in {r \in shorter : Len(r) = n - 1}, x \in S}

WithIds(s) == [i \in 1..Len(s) |-> s[i] @@ [id |-> i - 1]]

CalcInit ==
    /\ waste_items = 1
    /\ \E s \in SeqsUpTo(CalcEntries, MaxCalcItems) :
           heap = [a \in Addr |-> IF a = 1 THEN WithIds(s) ELSE <<>>]
    /\ calculation_result = <<>>
    /\ show_result = FALSE
    /\ stored = [kind |-> "none"]
    /\ now = 0
    /\ pc = "call"
    /\ clicked = [w |-> "none"]
    /\ history = <<>>
    /\ error = FALSE
    /\ toast = "none"
    /\ io = [op |-> "none"]
    /\ DeviceInit

CalcCall ==
    /\ pc \in {"call", "returned"}
    /\ pc' = "returned"
    /\ heap' = calculate_emissions_heap([addr |-> waste_items])
    /\ \E result \in {calculate_emissions([addr |-> waste_items])} :
         IF result = KeyError
         THEN error' = TRUE /\ UNCHANGED calculation_result
         ELSE calculation_result' = result /\ UNCHANGED error
    /\ UNCHANGED <<waste_items, show_result, stored, now, clicked, history,
                   toast, io>>
    /\ UNCHANGED deviceVars

CalcNext == CalcCall

SpecCalc == CalcInit /\ [][CalcNext]_vars

(***************************************************************************)
(* Month labels (src/app.py:217-218).  The clock counts months: month t is *)
(* month (t % 12) + 1 of year t \div 12.  A label "<MonthName> <Year>" is  *)
(* the record [name, year]; Python compares the strings character by       *)
(* character, so labels order by the month name's alphabetical place and   *)
(* then by the (four-digit) year.                                          *)
(***************************************************************************)
MonthNames ==
    <<"January", "February", "March", "April", "May", "June", "July",
      "August", "September", "October", "November", "December">>

AlphaOrder ==
    <<"April", "August", "December", "February", "January", "July", "June",
      "March", "May", "November", "October", "September">>

AlphaRank(name) == CHOOSE i \in 1..12 : AlphaOrder[i] = name

\* a <= b as Python strings
StrLeq(a, b) ==
    \/ AlphaRank(a.name) < AlphaRank(b.name)
    \/ a.name = b.name /\ a.year <= b.year

MonthLabel(t) == [name |-> MonthNames[(t % 12) + 1], year |-> t \div 12]

\* datetime.now().strftime("%B %Y")
get_month_label == MonthLabel(now)

\* sorted(S)[-1]
SortedLast(S) == CHOOSE k \in S : \A j \in S : StrLeq(j, k)

\* sorted(S, reverse=True)
RECURSIVE SortedDesc(_)
SortedDesc(S) ==
    IF S = {} THEN <<>>
    ELSE <<SortedLast(S)>> \o SortedDesc(S \ {SortedLast(S)})

(***************************************************************************)
(* Local storage (src/app.py:183-214).  The value under HIST_KEY is absent *)
(* ([kind |-> "none"]), something that is not a dict ([kind |-> "str"]) or *)
(* a dict from month labels to records ([kind |-> "dict", val |-> h]).     *)
(* The storage component is not this repository's code: each of its calls  *)
(* either does its work or raises, and which is an input of the step.      *)
(* What is written is a serialized copy: a session list is stored by its   *)
(* contents.                                                               *)
(***************************************************************************)
SerializeRecord(r) ==
    IF "items" \in DOMAIN r
    THEN [r EXCEPT !.items = [val |-> Deref(r.items)]]
    ELSE r

Serialize(hist) ==
    IF DOMAIN hist = {} THEN <<>>
    ELSE [k \in DOMAIN hist |-> SerializeRecord(hist[k])]

\* Mutant of get_history: when the read raises, the script's last history
\* is returned instead of {}.
get_history_stale(st, getRaises) ==
    IF getRaises THEN history
    ELSE IF st.kind = "dict" THEN st.val ELSE <<>>

\* get_history() on storage st
get_history(st, getRaises) ==
    IF getRaises THEN <<>>
    ELSE IF st.kind = "dict" THEN st.val ELSE <<>>

\* Mutant of save_history: the dict is merged into what is stored, a stored
\* record winning over a new one for the same month.
save_history_merge(st, hist, setRaises) ==
    IF setRaises THEN st
    ELSE IF st.kind = "dict"
    THEN [kind |-> "dict", val |-> st.val @@ Serialize(hist)]
    ELSE [kind |-> "dict", val |-> Serialize(hist)]

\* storage after save_history(hist) on storage st
save_history(st, hist, setRaises) ==
    IF setRaises THEN st ELSE [kind |-> "dict", val |-> Serialize(hist)]

\* Mutant of clear_storage: both calls are missing (the body is a pass).
clear_storage_keep(st, deleteRaises, setRaises) == st

\* storage after clear_storage() on storage st
clear_storage(st, deleteRaises, setRaises) ==
    IF ~deleteRaises THEN [kind |-> "none"]
    ELSE IF ~setRaises THEN [kind |-> "dict", val |-> <<>>]
    ELSE st

\* d.get("by_category") and d.get("items") as conditions
HasByCategory(d) == "by_category" \in DOMAIN d /\ d.by_category # <<>>

HasItems(d) == "items" \in DOMAIN d /\ Deref(d.items) # <<>>

\* history[month] = data
DictPut(hist, month, data) == (month :> data) @@ hist

(***************************************************************************)
(* The script (src/app.py:472-742).  A widget event starts a run, and a    *)
(* run goes through the tabs in order; pc is the tab whose code runs next. *)
(* Tab 1 holds the handlers of the calculator's widgets and nothing else   *)
(* that changes state, so a run that serves one of them starts with that   *)
(* handler and goes on in tab 2: either in the same run, or, after         *)
(* st.rerun(), in the run that follows and serves no event.  A run that    *)
(* reaches the end waits ("idle") for the next widget event.               *)
(***************************************************************************)
MaxItems == 2
MaxTicks == 1

StartMonth == 2025 * 12 + 2

FormCategories == {"Plastic"}
FormQuantities == {FromCenti(0), FromCenti(200)}

LegacyPlastic ==
    [total |-> FromCenti(1200),
     items |-> [val |-> <<[category |-> "Plastic", quantity |-> FromCenti(200)]>>]]

LegacyGlass ==
    [total |-> FromCenti(21),
     items |-> [val |-> <<[category |-> "Glass", quantity |-> FromCenti(25)]>>]]

LegacyNoItems == [total |-> FromCenti(500)]

InitialStores ==
    {[kind |-> "none"],
     [kind |-> "str"],
     [kind |-> "dict", val |-> (MonthLabel(StartMonth - 1) :> LegacyPlastic)
                               @@ (MonthLabel(StartMonth - 2) :> LegacyGlass)
                               @@ (MonthLabel(StartMonth - 3) :> LegacyNoItems)]}

Init ==
    /\ waste_items = 1
    /\ heap = [a \in Addr |-> <<>>]
    /\ calculation_result = <<>>
    /\ show_result = FALSE
    /\ stored \in InitialStores
    /\ now = StartMonth
    /\ pc = "idle"
    /\ clicked = [w |-> "none"]
    /\ history = <<>>
    /\ error = FALSE
    /\ toast = "none"
    /\ io = [op |-> "none"]
    /\ DeviceInit

sessionVars == <<heap, waste_items, calculation_result, show_result>>

\* st.rerun(): the next run serves no event, and tab 1 does nothing in it
Rerun == pc' = "tab2" /\ clicked' = [w |-> "none"]

\* a run starts: the last run's error and toast are gone
RunStarts == pc = "idle"

\* the last run ended in the Calculate handler, before the widgets below it
\* were drawn
DiedInCalculate == error /\ io.op = "Calculate"

\* the wall clock reaches the next month
Tick ==
    /\ pc = "idle"
    /\ now < StartMonth + MaxTicks
    /\ now' = now + 1
    /\ UNCHANGED <<sessionVars, stored, pc, clicked, history, error, toast, io>>
    /\ UNCHANGED deviceVars

\* the "Clear All History" button is clicked: the run that serves it goes
\* through tabs 1 and 2 and the History loop first.  The button is there
\* when the last run came to line 735 with a history.
ClickClearHistory ==
    /\ RunStarts
    /\ ~error
    /\ DOMAIN history # {}
    /\ clicked' = [w |-> "clear_history"]
    /\ pc' = "tab2"
    /\ error' = FALSE
    /\ toast' = "none"
    /\ io' = [op |-> "ClickClearHistory"]
    /\ UNCHANGED <<sessionVars, stored, now, history>>
    /\ UNCHANGED deviceVars

\* Mutant of ValidQuantity: the test is quantity >= 0.
ValidQuantityOrZero(quantity) == TRUE

\* quantity > 0 (line 523); the widget's min_value keeps it >= 0
ValidQuantity(quantity) == quantity.m # <<>>

\* lines 522-531
AddItem ==
    /\ RunStarts
    /\ Len(heap[waste_items]) < MaxItems
    /\ \E category \in FormCategories, quantity \in FormQuantities :
         /\ ValidQuantity(quantity)
         /\ LET new_item == [category |-> category,
                             quantity |-> quantity,
                             id |-> Len(heap[waste_items])]
            IN  heap' = [heap EXCEPT ![waste_items] = Append(@, new_item)]
         /\ io' = [op |-> "AddItem", quantity |-> quantity]
    /\ toast' = "added"
    /\ error' = FALSE
    /\ Rerun
    /\ UNCHANGED <<waste_items, calculation_result, show_result, stored, now,
                   history>>
    /\ UNCHANGED deviceVars

\* lines 522-523, 532-533
AddItemRejected ==
    /\ RunStarts
    /\ Len(heap[waste_items]) < MaxItems
    /\ \E category \in FormCategories, quantity \in FormQuantities :
         /\ ~ValidQuantity(quantity)
         /\ io' = [op |-> "AddItemRejected", quantity |-> quantity]
    /\ toast' = "invalid_quantity"
    /\ error' = FALSE
    /\ pc' = "tab2"
    /\ UNCHANGED <<sessionVars, stored, now, clicked, history>>
    /\ UNCHANGED deviceVars

Pop(s, i) == SubSeq(s, 1, i - 1) \o SubSeq(s, i + 1, Len(s))

\* lines 561-568
RemoveItem ==
    /\ RunStarts
    /\ \E i \in 1..Len(heap[waste_items]) :
         heap' = [heap EXCEPT ![waste_items] = Pop(@, i)]
    /\ toast' = "removed"
    /\ error' = FALSE
    /\ io' = [op |-> "RemoveItem"]
    /\ Rerun
    /\ UNCHANGED <<waste_items, calculation_result, show_result, stored, now,
                   history>>
    /\ UNCHANGED deviceVars

\* lines 598-604: what the handler computes, given which storage calls raise
CalculateEffect(getRaises, setRaises) ==
    LET items  == [addr |-> waste_items]
        result == calculate_emissions(items)
        hist0  == get_history(stored, getRaises)
        hist1  == DictPut(hist0, get_month_label, result)
    IN  [raised  |-> result = KeyError,
         heap    |-> calculate_emissions_heap(items),
         result  |-> result,
         history |-> hist1,
         stored  |-> save_history(stored, hist1, setRaises)]

\* lines 593-608
Calculate ==
    /\ RunStarts
    /\ heap[waste_items] # <<>>
    /\ \E getRaises \in BOOLEAN, setRaises \in BOOLEAN :
         \E eff \in {CalculateEffect(getRaises, setRaises)} :
             IF eff.raised
             THEN /\ error' = TRUE
                  /\ pc' = "idle"
                  /\ io' = [op |-> "Calculate", raised |-> TRUE]
                  /\ heap' = eff.heap
                  /\ toast' = "none"
                  /\ UNCHANGED <<waste_items, calculation_result, show_result,
                                 stored, clicked, history>>
             ELSE /\ heap' = eff.heap
                  /\ calculation_result' = eff.result
                  /\ history' = eff.history
                  /\ stored' = eff.stored
                  /\ show_result' = TRUE
                  /\ toast' = "saved"
                  /\ io' = [op |-> "Calculate", raised |-> FALSE,
                            get_raised |-> getRaises, set_raised |-> setRaises,
                            before |-> stored]
                  /\ error' = FALSE
                  /\ Rerun
                  /\ UNCHANGED waste_items
    /\ UNCHANGED now
    /\ UNCHANGED deviceVars

\* lines 593-594, 609-610
CalculateNoItems ==
    /\ RunStarts
    /\ heap[waste_items] = <<>>
    /\ toast' = "no_items"
    /\ error' = FALSE
    /\ io' = [op |-> "CalculateNoItems"]
    /\ pc' = "tab2"
    /\ UNCHANGED <<sessionVars, stored, now, clicked, history>>
    /\ UNCHANGED deviceVars

\* the addresses a session value refers to
Refs(result) ==
    IF "items" \in DOMAIN result /\ "addr" \in DOMAIN result.items
    THEN {result.items.addr}
    ELSE {}

\* the address of a new list: the lowest one that nothing live refers to
NewList(live) == CHOOSE a \in Addr \ live : \A b \in Addr \ live : a <= b

\* lines 613-619: waste_items is bound to a new, empty list and the result is
\* reset; the old list is then referred to by nothing, and is collected
\* before the new one is made
ClearAllItems ==
    /\ RunStarts
    /\ ~DiedInCalculate
    /\ heap[waste_items] # <<>>
    /\ calculation_result' = <<>>
    /\ waste_items' = NewList(Refs(calculation_result'))
    /\ heap' = [a \in Addr |-> IF a \in Refs(calculation_result')
                               THEN heap[a] ELSE <<>>]
    /\ show_result' = FALSE
    /\ toast' = "items_cleared"
    /\ io' = [op |-> "ClearAllItems"]
    /\ error' = FALSE
    /\ Rerun
    /\ UNCHANGED <<stored, now, history>>
    /\ UNCHANGED deviceVars

\* lines 613-614 when there are no items: nothing happens
ClearAllItemsNoop ==
    /\ RunStarts
    /\ ~DiedInCalculate
    /\ heap[waste_items] = <<>>
    /\ toast' = "none"
    /\ error' = FALSE
    /\ io' = [op |-> "ClearAllItemsNoop"]
    /\ pc' = "tab2"
    /\ UNCHANGED <<sessionVars, stored, now, clicked, history>>
    /\ UNCHANGED deviceVars

\* a record in the legacy shape that can be upgraded (lines 657-658, 695)
NeedsUpgrade(data) == ~HasByCategory(data) /\ HasItems(data)

\* lines 648-661: what the Dashboard tab leaves in history and in storage
DashboardEffect(getRaises, setRaises) ==
    LET hist0 == get_history(stored, getRaises)
    IN  IF DOMAIN hist0 = {}
        THEN [raised |-> FALSE, history |-> hist0, stored |-> stored]
        ELSE LET latest_month == SortedLast(DOMAIN hist0)
                 latest_data  == hist0[latest_month]
             IN  IF NeedsUpgrade(latest_data)
                 THEN LET new == calculate_emissions(latest_data.items)
                      IN  IF new = KeyError
                          THEN [raised |-> TRUE, history |-> hist0,
                                stored |-> stored]
                          ELSE LET hist1 == DictPut(hist0, latest_month, new)
                               IN  [raised  |-> FALSE,
                                    history |-> hist1,
                                    stored  |-> save_history(stored, hist1,
                                                             setRaises)]
                 ELSE [raised |-> FALSE, history |-> hist0, stored |-> stored]

\* the months of storage st whose record the next read would upgrade
UpgradableIn(st, getRaises) ==
    LET hist0 == get_history(st, getRaises)
    IN  {m \in DOMAIN hist0 : NeedsUpgrade(hist0[m])}

\* line 654: the month the Dashboard selects, <<>> when there is no history
DashboardLatest(getRaises) ==
    LET hist0 == get_history(stored, getRaises)
    IN  IF DOMAIN hist0 = {} THEN <<>> ELSE <<SortedLast(DOMAIN hist0)>>

\* the Dashboard tab reaches save_history (line 661)
DashboardSaves(getRaises) ==
    LET hist0 == get_history(stored, getRaises)
    IN  /\ DOMAIN hist0 # {}
        /\ SortedLast(DOMAIN hist0) \in UpgradableIn(stored, getRaises)

\* lines 645-682
DashboardTab ==
    /\ pc = "tab2"
    /\ \E getRaises \in BOOLEAN :
         \E setRaises \in (IF DashboardSaves(getRaises) THEN BOOLEAN ELSE {FALSE}) :
               \E eff \in {DashboardEffect(getRaises, setRaises)} :
                   /\ history' = eff.history
                   /\ stored' = eff.stored
                   /\ error' = (error \/ eff.raised)
                   /\ pc' = IF eff.raised THEN "idle" ELSE "tab3"
                   /\ clicked' = IF eff.raised THEN [w |-> "none"] ELSE clicked
                   /\ io' = [op |-> "DashboardTab", get_raised |-> getRaises,
                             set_raised |-> setRaises, before |-> stored,
                             latest |-> DashboardLatest(getRaises)]
    /\ UNCHANGED <<sessionVars, now, toast>>
    /\ UNCHANGED deviceVars

\* Mutant of HistLoop: the loop stops after the first record it upgrades.
RECURSIVE HistLoopFirstOnly(_, _, _, _, _)
HistLoopFirstOnly(months, i, hist, st, failing) ==
    IF i > Len(months) THEN [raised |-> FALSE, history |-> hist, stored |-> st]
    ELSE LET month == months[i]
             data  == hist[month]
         IN  IF NeedsUpgrade(data)
             THEN LET new == calculate_emissions(data.items)
                  IN  IF new = KeyError
                      THEN [raised |-> TRUE, history |-> hist, stored |-> st]
                      ELSE LET hist1 == DictPut(hist, month, new)
                           IN  [raised  |-> FALSE,
                                history |-> hist1,
                                stored  |-> save_history(st, hist1,
                                                         month \in failing)]
             ELSE HistLoopFirstOnly(months, i + 1, hist, st, failing)

\* lines 694-698: the loop over sorted(history.items(), reverse=True), from
\* its i-th month on; failing is the set of months whose write-back raises
RECURSIVE HistLoop(_, _, _, _, _)
HistLoop(months, i, hist, st, failing) ==
    IF i > Len(months) THEN [raised |-> FALSE, history |-> hist, stored |-> st]
    ELSE LET month == months[i]
             data  == hist[month]
         IN  IF NeedsUpgrade(data)
             THEN LET new == calculate_emissions(data.items)
                  IN  IF new = KeyError
                      THEN [raised |-> TRUE, history |-> hist, stored |-> st]
                      ELSE LET hist1 == DictPut(hist, month, new)
                           IN  HistLoop(months, i + 1, hist1,
                                        save_history(st, hist1, month \in failing),
                                        failing)
             ELSE HistLoop(months, i + 1, hist, st, failing)

\* lines 689-698: what the History tab leaves in history and in storage
HistoryEffect(getRaises, failing) ==
    LET hist0 == get_history(stored, getRaises)
    IN  HistLoop(SortedDesc(DOMAIN hist0), 1, hist0, stored, failing)

\* lines 685-733
HistoryTab ==
    /\ pc = "tab3"
    /\ \E getRaises \in BOOLEAN :
         \E failing \in SUBSET UpgradableIn(stored, getRaises) :
           \E loop \in {HistoryEffect(getRaises, failing)} :
               /\ history' = loop.history
               /\ stored' = loop.stored
               /\ error' = (error \/ loop.raised)
               /\ pc' = IF loop.raised THEN "idle" ELSE "clear"
               /\ clicked' = IF loop.raised THEN [w |-> "none"] ELSE clicked
               /\ io' = [op |-> "HistoryTab", get_raised |-> getRaises,
                         set_raised |-> failing, before |-> stored]
    /\ UNCHANGED <<sessionVars, now, toast>>
    /\ UNCHANGED deviceVars

\* lines 735-741: the button is there when history is not empty
ClearAllHistory ==
    /\ pc = "clear"
    /\ clicked.w = "clear_history" /\ DOMAIN history # {}
    /\ \E deleteRaises \in BOOLEAN :
         \E setRaises \in (IF deleteRaises THEN BOOLEAN ELSE {FALSE}) :
           /\ stored' = clear_storage(stored, deleteRaises, setRaises)
           /\ io' = [op |-> "ClearAllHistory", delete_raised |-> deleteRaises,
                     set_raised |-> setRaises, before |-> stored]
    /\ toast' = "history_cleared"
    /\ Rerun
    /\ UNCHANGED <<sessionVars, now, history, error>>
    /\ UNCHANGED deviceVars

\* line 735-737 with no click on the button, or no button
ClearPass ==
    /\ pc = "clear"
    /\ ~(clicked.w = "clear_history" /\ DOMAIN history # {})
    /\ io' = [op |-> "ClearPass"]
    /\ pc' = "tab4"
    /\ UNCHANGED <<sessionVars, stored, now, clicked, history, error, toast>>
    /\ UNCHANGED deviceVars

\* the buttons of tab 4
DeviceClicks == {"connect", "refresh", "disconnect"}

\* Mutant of LiveDisplay: the live block is not guarded by the flag.
LiveDisplayAlways == TRUE

\* line 792: the live block runs
LiveDisplay == esp32_connected

\* tab 4 with no device button clicked and the device neither connecting
\* nor connected (lines 830-831): nothing of the state is touched; the run
\* ends
Tab4Pass ==
    /\ pc = "tab4"
    /\ clicked.w \notin DeviceClicks
    /\ ~esp32_connecting
    /\ ~LiveDisplay
    /\ io' = [op |-> "Tab4Pass"]
    /\ pc' = "idle"
    /\ clicked' = [w |-> "none"]
    /\ toast' = "none"
    /\ UNCHANGED <<sessionVars, stored, now, history, error>>
    /\ UNCHANGED deviceVars

Next ==
    \/ Tick
    \/ ClickClearHistory
    \/ AddItem
    \/ AddItemRejected
    \/ RemoveItem
    \/ Calculate
    \/ CalculateNoItems
    \/ ClearAllItems
    \/ ClearAllItemsNoop
    \/ DashboardTab
    \/ HistoryTab
    \/ ClearAllHistory
    \/ ClearPass
    \/ Tab4Pass

Spec == Init /\ [][Next]_vars

(***************************************************************************)
(* The device panel (src/app.py:239-244, 745-831).  random.uniform is an   *)
(* input of the step; the samples are the ends of its two ranges.  clock   *)
(* advances by the sleeps of the script.                                   *)
(***************************************************************************)
MaxClock == 14

BaseSamples == {-50, 150}
VariationSamples == {-20, 30}

Max2(x, y) == IF x >= y THEN x ELSE y

\* lines 242-244, for the two samples drawn
simulate_esp32_reading(base, variation) ==
    Max2(350, Min2(2000, (450 + base) + variation))

Readings ==
    {simulate_esp32_reading(b, v) : b \in BaseSamples, v \in VariationSamples}

PollInterval == 5
KeepReadings == 10
ConnectSleep == 2
LiveSleep == 2

\* a button of tab 4 is clicked: the run that serves it goes through tabs
\* 1 to 3 first
ClickDevice(w) ==
    /\ RunStarts
    /\ ~error
    /\ clicked' = [w |-> w]
    /\ pc' = "tab2"
    /\ error' = FALSE
    /\ toast' = "none"
    /\ io' = [op |-> "Click"]
    /\ UNCHANGED <<sessionVars, stored, now, history, deviceVars>>

\* line 763: the button is disabled while connected or connecting
ClickConnect ==
    /\ ~(esp32_connected \/ esp32_connecting)
    /\ ClickDevice("connect")

\* line 768: the button is disabled while not connected
ClickRefresh ==
    /\ esp32_connected
    /\ ClickDevice("refresh")

\* line 775: the button is disabled while not connected
ClickDisconnect ==
    /\ esp32_connected
    /\ ClickDevice("disconnect")

\* lines 827-828: the sleep at the end of the live block is over and the
\* script reruns
TimerRerun ==
    /\ RunStarts
    /\ io.op = "LivePass"
    /\ clock + LiveSleep <= MaxClock
    /\ clock' = clock + LiveSleep
    /\ Rerun
    /\ io' = [op |-> "TimerRerun"]
    /\ UNCHANGED <<sessionVars, stored, now, history, error, toast,
                   esp32_connected, esp32_connecting, current_co2,
                   co2_readings, last_update>>

\* lines 763-765
Connect ==
    /\ pc = "tab4"
    /\ clicked.w = "connect"
    /\ esp32_connecting' = TRUE
    /\ Rerun
    /\ io' = [op |-> "Connect"]
    /\ UNCHANGED <<sessionVars, stored, now, history, error, toast,
                   esp32_connected, current_co2, co2_readings, last_update,
                   clock>>

\* lines 768-772
Refresh ==
    /\ pc = "tab4"
    /\ clicked.w = "refresh"
    /\ esp32_connected
    /\ \E b \in BaseSamples, v \in VariationSamples :
         current_co2' = simulate_esp32_reading(b, v)
    /\ toast' = "refreshed"
    /\ Rerun
    /\ io' = [op |-> "Refresh"]
    /\ UNCHANGED <<sessionVars, stored, now, history, error,
                   esp32_connected, esp32_connecting, co2_readings,
                   last_update, clock>>

\* lines 775-779
Disconnect ==
    /\ pc = "tab4"
    /\ clicked.w = "disconnect"
    /\ esp32_connected' = FALSE
    /\ esp32_connecting' = FALSE
    /\ toast' = "disconnected"
    /\ Rerun
    /\ io' = [op |-> "Disconnect"]
    /\ UNCHANGED <<sessionVars, stored, now, history, error, current_co2,
                   co2_readings, last_update, clock>>

\* Mutant of CompletionFlags: esp32_connecting is not cleared.
CompletionFlagsKeepConnecting == [connected |-> TRUE, connecting |-> TRUE]

\* lines 785-786: the flags when the connection is made
CompletionFlags == [connected |-> TRUE, connecting |-> FALSE]

\* lines 782-789
ConnectCompletes ==
    /\ pc = "tab4"
    /\ clicked.w \notin DeviceClicks
    /\ esp32_connecting /\ ~esp32_connected
    /\ clock + ConnectSleep <= MaxClock
    /\ clock' = clock + ConnectSleep
    /\ esp32_connected' = CompletionFlags.connected
    /\ esp32_connecting' = CompletionFlags.connecting
    /\ \E b \in BaseSamples, v \in VariationSamples :
         current_co2' = simulate_esp32_reading(b, v)
    /\ toast' = "connected"
    /\ Rerun
    /\ io' = [op |-> "ConnectCompletes"]
    /\ UNCHANGED <<sessionVars, stored, now, history, error, co2_readings,
                   last_update>>

\* lines 804-805
LastReadings(s) ==
    IF Len(s) > KeepReadings THEN SubSeq(s, Len(s) - KeepReadings + 1, Len(s))
    ELSE s

\* line 797, with last_update as lines 794-795 leave it
PollDue == last_update # <<>> /\ clock - last_update[1] > PollInterval

\* lines 792-826 up to the sleep, in which the run waits for TimerRerun or
\* for a click
LivePass ==
    /\ pc = "tab4"
    /\ clicked.w \notin DeviceClicks
    /\ ~(esp32_connecting /\ ~esp32_connected)
    /\ LiveDisplay
    /\ IF PollDue
       THEN /\ \E b \in BaseSamples, v \in VariationSamples :
                 current_co2' = simulate_esp32_reading(b, v)
            /\ last_update' = <<clock>>
            /\ co2_readings' = LastReadings(Append(co2_readings, current_co2'))
       ELSE /\ last_update' = IF last_update = <<>> THEN <<clock>>
                                                   ELSE last_update
            /\ UNCHANGED <<current_co2, co2_readings>>
    /\ pc' = "idle"
    /\ clicked' = [w |-> "none"]
    /\ toast' = "none"
    /\ io' = [op |-> "LivePass"]
    /\ UNCHANGED <<sessionVars, stored, now, history, error,
                   esp32_connected, esp32_connecting, clock>>

DeviceSpecInit == Init /\ stored = [kind |-> "none"]

DeviceNext ==
    \/ ClickConnect
    \/ ClickRefresh
    \/ ClickDisconnect
    \/ TimerRerun
    \/ DashboardTab
    \/ HistoryTab
    \/ ClearPass
    \/ Tab4Pass
    \/ Connect
    \/ Refresh
    \/ Disconnect
    \/ ConnectCompletes
    \/ LivePass

SpecDevice == DeviceSpecInit /\ [][DeviceNext]_vars

(***************************************************************************)
(* The script over data with a category that EMISSION_FACTORS does not     *)
(* have.  The selector offers only the table's keys, but the session and   *)
(* the store outlive the table: Streamlit reruns an edited script with the *)
(* session kept, and the browser keeps what an earlier table wrote.        *)
(***************************************************************************)
UnknownItem == [category |-> "Batteries", quantity |-> FromCenti(100), id |-> 0]

LegacyBatteries ==
    [total |-> FromCenti(100),
     items |-> [val |-> <<[category |-> "Batteries", quantity |-> FromCenti(100)]>>]]

\* the unknown record is the one the Dashboard selects, or one the History
\* loop comes to after a record it can upgrade
UnknownStores ==
    {[kind |-> "dict", val |-> (MonthLabel(StartMonth - 2) :> LegacyBatteries)],
     [kind |-> "dict", val |-> (MonthLabel(StartMonth - 2) :> LegacyGlass)
                               @@ (MonthLabel(StartMonth - 3) :> LegacyBatteries)]}

UnknownInit ==
    /\ waste_items = 1
    /\ \E s \in {<<>>, <<UnknownItem>>} :
           heap = [a \in Addr |-> IF a = 1 THEN s ELSE <<>>]
    /\ calculation_result = <<>>
    /\ show_result = FALSE
    /\ stored \in {[kind |-> "none"]} \cup UnknownStores
    /\ now = StartMonth
    /\ pc = "idle"
    /\ clicked = [w |-> "none"]
    /\ history = <<>>
    /\ error = FALSE
    /\ toast = "none"
    /\ io = [op |-> "none"]
    /\ DeviceInit

SpecUnknown == UnknownInit /\ [][Next]_vars

(***************************************************************************)
(* Properties of the calculator, checked under SpecCalc.                   *)
(***************************************************************************)
IsResult(r) == DOMAIN r = {"total", "by_category", "items"}

CalcInput == heap[waste_items]

\* sum(q * factor[c] for the first n entries), added in list order from 0
RECURSIVE SumProducts(_, _)
SumProducts(s, n) ==
    IF n = 0 THEN FZero
    ELSE FAdd(SumProducts(s, n - 1),
              FMul(s[n].quantity, EMISSION_FACTORS[s[n].category]))

\* the same sum over the entries of category c only
RECURSIVE CatSum(_, _, _)
CatSum(s, n, c) ==
    IF n = 0 THEN FZero
    ELSE IF s[n].category = c
    THEN FAdd(CatSum(s, n - 1, c),
              FMul(s[n].quantity, EMISSION_FACTORS[c]))
    ELSE CatSum(s, n - 1, c)

\* sum(d.values()) of the first n pairs, in the dict's order
RECURSIVE SumValues(_, _)
SumValues(d, n) == IF n = 0 THEN FZero ELSE FAdd(SumValues(d, n - 1), d[n].v)

Returned == pc = "returned" /\ ~error

\* C1: for a non-empty list of entries with known categories the returned
\* total is the sum of quantity * factor over the entries rounded to two
\* decimal places, and every per-category subtotal is the unrounded sum of
\* its entries.
C1_TotalIsRoundedSum ==
    (Returned /\ CalcInput # <<>>) =>
        /\ IsResult(calculation_result)
        /\ calculation_result.total
               = Round2(SumProducts(CalcInput, Len(CalcInput)))
        /\ \A c \in DictKeys(calculation_result.by_category) :
               DictGet(calculation_result.by_category, c, FZero)
                   = CatSum(CalcInput, Len(CalcInput), c)

\* C1 witness: a result whose total was changed by the rounding while one of
\* its subtotals has more than two decimal places.
C1_Witness ==
    /\ Returned /\ CalcInput # <<>> /\ IsResult(calculation_result)
    /\ calculation_result.total # SumProducts(CalcInput, Len(CalcInput))
    /\ \E c \in DictKeys(calculation_result.by_category) :
           LET v == DictGet(calculation_result.by_category, c, FZero)
           IN  v # Round2(v)

ExampleInput ==
    WithIds(<<Entry("Plastic", 200), Entry("Paper", 500)>>)

ExampleHolds ==
    CalcInput = ExampleInput =>
        /\ calculation_result.by_category
               = <<[k |-> "Plastic", v |-> FromCenti(1200)],
                   [k |-> "Paper", v |-> FromCenti(600)]>>
        /\ calculation_result.total = FromCenti(1800)

KeysAndSubtotals ==
    /\ DictKeys(calculation_result.by_category)
           = {CalcInput[i].category : i \in 1..Len(CalcInput)}
    /\ \A c \in DictKeys(calculation_result.by_category) :
           DictGet(calculation_result.by_category, c, FZero)
               = CatSum(CalcInput, Len(CalcInput), c)

\* C2 as stated: the keys of by_category are the categories of the entries,
\* each value is the sum of its category's products, the values add up to
\* exactly the unrounded grand total, and total = round(sum of values, 2).
C2_Original ==
    Returned =>
        /\ IsResult(calculation_result)
        /\ KeysAndSubtotals
        /\ ExampleHolds
        /\ LET sv == SumValues(calculation_result.by_category,
                               Len(calculation_result.by_category))
           IN  /\ sv = SumProducts(CalcInput, Len(CalcInput))
               /\ calculation_result.total = Round2(sv)

\* C2 amended: as C2, but the values add up to the unrounded grand total
\* only to within floating-point tolerance (relative 1e-09).
C2_BreakdownWithinTolerance ==
    Returned =>
        /\ IsResult(calculation_result)
        /\ KeysAndSubtotals
        /\ ExampleHolds
        /\ FClose(SumValues(calculation_result.by_category,
                            Len(calculation_result.by_category)),
                  SumProducts(CalcInput, Len(CalcInput)))

\* C2 witness: the example of the claim has been computed.
C2_Witness ==
    /\ Returned /\ CalcInput = ExampleInput /\ IsResult(calculation_result)
    /\ DictKeys(calculation_result.by_category) = {"Plastic", "Paper"}

\* C6: on the empty list the function returns total 0, an empty by_category
\* and an empty items list.
C6_EmptyInput ==
    (pc = "returned" /\ CalcInput = <<>>) =>
        /\ IsResult(calculation_result)
        /\ calculation_result.total = FZero
        /\ calculation_result.by_category = <<>>
        /\ Deref(calculation_result.items) = <<>>

\* C6 witness: the function has returned from a call on the empty list.
C6_Witness ==
    pc = "returned" /\ CalcInput = <<>> /\ IsResult(calculation_result)

Calculated == io.op = "Calculate" /\ ~io.raised

\* a read of the store that does not fail
ReadBack == get_history(stored, FALSE)

\* the result in the session as the store holds it
ResultStored == SerializeRecord(calculation_result)

\* the store held a calculation's record for this month before the handler
SecondInMonth ==
    /\ io.before.kind = "dict"
    /\ get_month_label \in DOMAIN io.before.val
    /\ HasByCategory(io.before.val[get_month_label])

HoldsExactly(hist, month, record) ==
    month \in DOMAIN hist /\ hist[month] = record

ReadMapping == ~io.get_raised /\ io.before.kind = "dict"

\* the months whose record was in the legacy shape before the tab ran
LegacyBefore == {m \in DOMAIN io.before.val : NeedsUpgrade(io.before.val[m])}

\* the record of month m before the tab ran, recomputed from its items
Recomputed(m) == SerializeRecord(calculate_emissions(io.before.val[m].items))

\* the record of month m carries the breakdown recomputed from its items
UpgradedIn(hist, m) ==
    /\ HoldsExactly(hist, m, Recomputed(m))
    /\ HasByCategory(hist[m])

PlasticTwo == [k |-> "Plastic", v |-> FromCenti(1200)]

\* the example: items [(Plastic, 2)] yield by_category {Plastic: 12.0}
ExampleUpgraded(hist) ==
    \A m \in DOMAIN hist :
        (m \in LegacyBefore /\ io.before.val[m] = LegacyPlastic)
            => hist[m].by_category = <<PlasticTwo>>

EmptyOnRead == \A getRaises \in BOOLEAN :
                  DOMAIN get_history(stored, getRaises) = {}

SubmitsNotPositive ==
    /\ pc = "idle"
    /\ io'.op \in {"AddItem", "AddItemRejected"}
    /\ io'.quantity.m = <<>>

\* C8: a submission of the add-item form with a quantity <= 0 shows the
\* warning and leaves the entry list, the result, the show_result flag and
\* the history (in the script and in the store) as they were, and no
\* exception is raised.
C8_RejectedSubmissionChangesNothing ==
    [][SubmitsNotPositive =>
          /\ toast' = "invalid_quantity"
          /\ heap' = heap /\ waste_items' = waste_items
          /\ calculation_result' = calculation_result
          /\ show_result' = show_result
          /\ history' = history /\ stored' = stored
          /\ ~error']_vars

\* a quantity of zero was submitted while a list and a result were there
C8_Witness ==
    /\ io.op = "AddItemRejected" /\ io.quantity = FromCenti(0)
    /\ toast = "invalid_quantity"
    /\ heap[waste_items] # <<>>
    /\ show_result

\* the result in the session, its items by their contents
ResultValue ==
    IF calculation_result = <<>> THEN <<>>
    ELSE [total       |-> calculation_result.total,
          by_category |-> calculation_result.by_category,
          items       |-> Deref(calculation_result.items)]

\* C9 as stated: once a result is in the session, adding or removing an
\* entry leaves its total, by_category and items as they were.
C9_ResultIsAValue ==
    [][(pc = "idle" /\ calculation_result # <<>>
        /\ io'.op \in {"AddItem", "RemoveItem"})
          => ResultValue' = ResultValue]_vars

\* the read behind the tab that just ran failed, or found no mapping
ReadFailed == io.get_raised \/ io.before.kind # "dict"

\* C10: when the read of the persisted history raises, or the stored value
\* is missing or not a mapping, get_history returns the empty mapping and
\* no error is surfaced: the Dashboard and History tabs then have an empty
\* history and write nothing, and Calculate starts from an empty history.
C10_EmptyHistoryOnFailedRead ==
    /\ (io.op \in {"DashboardTab", "HistoryTab"} /\ ReadFailed) =>
          /\ DOMAIN history = {}
          /\ stored = io.before
          /\ ~error
    /\ (Calculated /\ ReadFailed) =>
          /\ DOMAIN history = {get_month_label}
          /\ ~error

\* the read raised over a store that holds records, after a tab that had
\* read them
C10_Witness ==
    /\ io.op = "HistoryTab"
    /\ io.get_raised
    /\ io.before.kind = "dict" /\ DOMAIN io.before.val # {}
    /\ DOMAIN history = {}


\* C13 as stated: a Calculate changes the stored history only under the
\* current month's label; the record of every other month that was in the
\* store is read back as it was, also when the handler's own read failed.
C13_CalculateKeepsOtherMonths ==
    (Calculated /\ io.before.kind = "dict") =>
        \A m \in DOMAIN io.before.val \ {get_month_label} :
            HoldsExactly(ReadBack, m, io.before.val[m])

\* the place of a label in time
MonthNumber(label) ==
    label.year * 12 + (CHOOSE i \in 1..12 : MonthNames[i] = label.name)

\* the most recent of the labels S
MostRecent(S) == CHOOSE k \in S : \A j \in S : MonthNumber(j) <= MonthNumber(k)

\* C14 as stated: the month the Dashboard selects as the latest is the most
\* recent month of the history it read.
C14_LatestIsMostRecent ==
    (io.op = "DashboardTab" /\ io.latest # <<>>) =>
        io.latest[1] = MostRecent(DOMAIN history)

(***************************************************************************)
(* Properties of the script over unknown categories, checked under         *)
(* SpecUnknown.                                                            *)
(***************************************************************************)
HasUnknown(s) == \E i \in 1..Len(s) : s[i].category \notin DOMAIN EMISSION_FACTORS

\* a stored record that a tab would recompute, with an unknown category
UnknownRecord(data) == NeedsUpgrade(data) /\ HasUnknown(Deref(data.items))

\* the session's result and the store are what they were
AttemptLeavesNoTrace ==
    /\ calculation_result' = calculation_result
    /\ show_result' = show_result
    /\ stored' = stored

\* the Calculate handler runs on a list with an unknown category
CalculateOnUnknown ==
    pc = "idle" /\ io'.op = "Calculate" /\ HasUnknown(heap[waste_items])

\* the Dashboard reads a history whose selected record has an unknown
\* category
DashboardOnUnknown ==
    /\ pc = "tab2" /\ io'.op = "DashboardTab"
    /\ ~io'.get_raised /\ stored.kind = "dict" /\ DOMAIN stored.val # {}
    /\ UnknownRecord(stored.val[SortedLast(DOMAIN stored.val)])

\* the History tab reads a history that has a record with an unknown
\* category
HistoryOnUnknown ==
    /\ pc = "tab3" /\ io'.op = "HistoryTab"
    /\ ~io'.get_raised /\ stored.kind = "dict"
    /\ \E m \in DOMAIN stored.val : UnknownRecord(stored.val[m])

\* C11: when an entry's category is not in EMISSION_FACTORS the call raises
\* KeyError and returns nothing: the handler or tab that made the call ends
\* there with the error, calculation_result and show_result are what they
\* were, and the store is what it was before the call (in the History loop:
\* what the records recomputed before that call left, the record with the
\* unknown category and every record after it untouched).
C11_UnknownCategoryAborts ==
    [][/\ CalculateOnUnknown =>
              (error' /\ AttemptLeavesNoTrace /\ history' = history)
       /\ DashboardOnUnknown => (error' /\ AttemptLeavesNoTrace)
       /\ HistoryOnUnknown =>
              /\ error'
              /\ calculation_result' = calculation_result
              /\ show_result' = show_result
              /\ stored'.kind = "dict"
              /\ DOMAIN stored'.val = DOMAIN stored.val
              /\ \A m \in DOMAIN stored.val :
                     \/ stored'.val[m] = stored.val[m]
                     \/ /\ NeedsUpgrade(stored.val[m])
                        /\ ~UnknownRecord(stored.val[m])
                        /\ HasByCategory(stored'.val[m])]_vars

\* the error as it comes from each of the three callers
CalculateAborted == error /\ io.op = "Calculate" /\ io.raised

DashboardAborted ==
    /\ error /\ io.op = "DashboardTab" /\ pc = "idle"
    /\ stored = io.before

\* the History loop wrote an upgraded record back and then came to the
\* record with the unknown category, with a result in the session
HistoryAborted ==
    /\ error /\ io.op = "HistoryTab" /\ pc = "idle"
    /\ stored # io.before
    /\ calculation_result # <<>>

\* C11 witness: the Calculate handler has ended with the error over a store
\* that holds a history.
C11_Witness == CalculateAborted /\ stored.kind = "dict"


(***************************************************************************)
(* Properties of the device panel, checked under SpecDevice.               *)
(***************************************************************************)
InRange == current_co2 >= 350 /\ current_co2 <= 2000

\* the step stores a reading that differs from the one shown
NewReading == current_co2' # current_co2

\* C12: current_co2 is in [350, 2000] in every state; it changes only in a
\* Refresh or a poll of the live block, both run with esp32_connected true,
\* or when the connection is made, which sets the flag before it reads;
\* over a step that begins and ends disconnected it does not change.
C12_ReadingInRangeWhileConnected ==
    /\ InRange
    /\ [][/\ InRange'
          /\ NewReading =>
                \/ io'.op \in {"Refresh", "LivePass"} /\ esp32_connected
                \/ io'.op = "ConnectCompletes" /\ esp32_connected'
          /\ (~esp32_connected /\ ~esp32_connected') => ~NewReading]_vars

\* C12 witness: the poll of the live block has stored a reading, after the
\* one the connection stored.
C12_Witness ==
    /\ io.op = "LivePass"
    /\ esp32_connected
    /\ co2_readings # <<>>
    /\ current_co2 = co2_readings[Len(co2_readings)]
    /\ InRange /\ current_co2 # 420

NeverBoth == ~(esp32_connecting /\ esp32_connected)

\* the step is tab 4's code serving the click on a button
Serves(w) == pc = "tab4" /\ clicked.w = w /\ pc' # pc

\* C15: the two flags are never both true; Connect can be clicked only
\* when both are false, and serving it sets esp32_connecting and nothing
\* else sets it; the pass of tab 4 that finds esp32_connecting set leaves
\* esp32_connected set and esp32_connecting cleared; Disconnect can be
\* clicked only when connected, serving it clears both flags, and nothing
\* else clears esp32_connected.
C15_DeviceFlagMachine ==
    /\ NeverBoth
    /\ [][/\ NeverBoth'
          /\ (pc = "idle" /\ clicked'.w = "connect")
                => (~esp32_connected /\ ~esp32_connecting)
          /\ Serves("connect")
                => /\ ~esp32_connected /\ ~esp32_connecting
                   /\ esp32_connecting' /\ ~esp32_connected'
          /\ (esp32_connecting' /\ ~esp32_connecting) => Serves("connect")
          /\ (pc = "tab4" /\ esp32_connecting /\ pc' # pc)
                => (esp32_connected' /\ ~esp32_connecting')
          /\ (pc = "idle" /\ clicked'.w = "disconnect") => esp32_connected
          /\ Serves("disconnect")
                => /\ esp32_connected
                   /\ ~esp32_connected' /\ ~esp32_connecting'
          /\ (esp32_connected /\ ~esp32_connected') => Serves("disconnect")]_vars

\* C15 witness: the device has gone from disconnected through connecting
\* and connected back to disconnected.
C15_Witness ==
    /\ io.op = "Disconnect"
    /\ ~esp32_connected /\ ~esp32_connecting
    /\ current_co2 # 420
    /\ last_update # <<>>

=============================================================================
